---- MODULE Spec2Model ----
(***************************************************************************)
(* run-one-until-fail: parse_args and run (src/src/lib.rs) and the loop of *)
(* main (src/src/bin/run-one-until-fail.rs).                               *)
(*                                                                         *)
(* Strings that the code only moves or compares (tokens, keys) are TLA+    *)
(* strings.  The value of RUN_ONE_WAIT is parsed character by character,   *)
(* so a value is a sequence of one-character strings.  A u64 is kept as    *)
(* its canonical sequence of decimal digits (no leading zero), so that     *)
(* the full 64-bit range, and overflow past it, is represented exactly.    *)
(***************************************************************************)
EXTENDS Integers, Sequences, FiniteSets, TLC

VARIABLES
    os_args,    \* the process's argument vector, as the platform holds it
    os_vars,    \* the process's environment, as the platform holds it
    args,       \* VecDeque<String> handed to parse_args
    vars,       \* the (String, String) pairs handed to parse_args
    pc,         \* position of the single thread of control
    res,        \* what parse_args returned (ParseResult)
    r,          \* outcome of the current / last run(): "none", "Ok", ...
    child,      \* exit status of the last child waited for (-1: none)
    spawns,     \* number of Command::spawn calls made
    outcomes,   \* outcomes of the run() calls so far, in order
    log,        \* observable events so far, in order
    status      \* the wrapper's exit status (-1: still running)

vars_all == <<os_args, os_vars, args, vars, pc, res, r, child, spawns, outcomes, log, status>>

-----------------------------------------------------------------------------
(* Bounds of the model *)

MaxArgs == 3
MaxVars == 2
MaxOsArgs == 3
MaxOsVars == 2
MaxRuns == 3

SeqsUpTo(S, n) == UNION {[1..k -> S] : k \in 0..n}

-----------------------------------------------------------------------------
(* Option<u64> and u64 *)

None == [some |-> FALSE, val |-> <<>>]
Some(v) == [some |-> TRUE, val |-> v]

\* u64::MAX = 18446744073709551615
U64Max == <<1,8,4,4,6,7,4,4,0,7,3,7,0,9,5,5,1,6,1,5>>

DigitChars == <<"0","1","2","3","4","5","6","7","8","9">>
IsDigit(c) == \E d \in 1..10 : DigitChars[d] = c
DigitVal(c) == (CHOOSE d \in 1..10 : DigitChars[d] = c) - 1

\* a <= b for canonical digit sequences
RECURSIVE LexLE(_, _)
LexLE(a, b) ==
    IF a = <<>> THEN TRUE
    ELSE IF Head(a) # Head(b) THEN Head(a) < Head(b)
    ELSE LexLE(Tail(a), Tail(b))

DigLE(a, b) ==
    IF Len(a) # Len(b) THEN Len(a) < Len(b) ELSE LexLE(a, b)

\* u64::checked_mul(10): None on overflow
CheckedMul10(v) ==
    LET p == IF v = <<0>> THEN <<0>> ELSE Append(v, 0)
    IN  IF DigLE(p, U64Max) THEN Some(p) ELSE None

\* u64::checked_add(d) for a value v that is a multiple of ten and a digit d
CheckedAddDigit(v, d) ==
    LET s == [v EXCEPT ![Len(v)] = d]
    IN  IF DigLE(s, U64Max) THEN Some(s) ELSE None

\* the digit loop of <u64 as FromStr>::from_str
RECURSIVE Accumulate(_, _)
Accumulate(acc, s) ==
    IF s = <<>> THEN Some(acc)
    ELSE IF ~IsDigit(Head(s)) THEN None
    ELSE LET m == CheckedMul10(acc)
         IN  IF ~m.some THEN None
             ELSE LET a == CheckedAddDigit(m.val, DigitVal(Head(s)))
                  IN  IF ~a.some THEN None ELSE Accumulate(a.val, Tail(s))

\* val.parse::<u64>(): Some(value) for Ok, None for Err
ParseU64(s) ==
    IF s = <<>> THEN None
    ELSE IF s = <<"+">> \/ s = <<"-">> THEN None
    ELSE IF Head(s) = "+" THEN Accumulate(<<0>>, Tail(s))
    ELSE Accumulate(<<0>>, s)

-----------------------------------------------------------------------------
(* parse_args *)

ErrNoProgramName == "Unable to get the name of the program."
ErrNoCommand == "Unable to get the command."

Cmd(c, a, w) == [cmd |-> c, args |-> a, wait |-> w]
NoCmd == Cmd("", <<>>, None)

\* Result<Cmd>, with the eprintln! of line 33 as `warned`
ParseResult(e, c, w) == [called |-> TRUE, err |-> e, cmd |-> c, warned |-> w]
NotParsed == [called |-> FALSE, err |-> "", cmd |-> NoCmd, warned |-> FALSE]

\* the last match instead of the first
FindWaitLast(vs) ==
    LET hits == {i \in 1..Len(vs) : vs[i].key = "RUN_ONE_WAIT"}
    IN  IF hits = {} THEN 0 ELSE CHOOSE i \in hits : \A j \in hits : i >= j

\* vars.find(|(key, _)| key == "RUN_ONE_WAIT"): index of the first match, 0 if none
FindWait(vs) ==
    LET hits == {i \in 1..Len(vs) : vs[i].key = "RUN_ONE_WAIT"}
    IN  IF hits = {} THEN 0 ELSE CHOOSE i \in hits : \A j \in hits : i <= j

\* the command is left in the argument list
parse_args_keeps_command(as, vs) ==
    IF as = <<>> THEN ParseResult(ErrNoProgramName, NoCmd, FALSE)
    ELSE LET rest == Tail(as)
         IN  IF rest = <<>> THEN ParseResult(ErrNoCommand, NoCmd, FALSE)
             ELSE LET i == FindWait(vs)
                      w == IF i = 0 THEN None ELSE ParseU64(vs[i].val)
                  IN  ParseResult("", Cmd(Head(rest), rest, w), i # 0 /\ ~w.some)

\* the check of the first pop_front is missing
parse_args_one_check(as, vs) ==
    IF Len(as) <= 1 THEN ParseResult(ErrNoCommand, NoCmd, FALSE)
    ELSE LET rest == Tail(as)
             i == FindWait(vs)
             w == IF i = 0 THEN None ELSE ParseU64(vs[i].val)
         IN  ParseResult("", Cmd(Head(rest), Tail(rest), w), i # 0 /\ ~w.some)

\* the program's own name is not discarded
parse_args_keeps_self(as, vs) ==
    IF as = <<>> THEN ParseResult(ErrNoProgramName, NoCmd, FALSE)
    ELSE IF Tail(as) = <<>> THEN ParseResult(ErrNoCommand, NoCmd, FALSE)
    ELSE LET i == FindWait(vs)
             w == IF i = 0 THEN None ELSE ParseU64(vs[i].val)
         IN  ParseResult("", Cmd(Head(as), Tail(as), w), i # 0 /\ ~w.some)

parse_args(as, vs) ==
    IF as = <<>> THEN ParseResult(ErrNoProgramName, NoCmd, FALSE)
    ELSE LET rest == Tail(as)
         IN  IF rest = <<>> THEN ParseResult(ErrNoCommand, NoCmd, FALSE)
             ELSE LET i == FindWait(vs)
                      w == IF i = 0 THEN None ELSE ParseU64(vs[i].val)
                  IN  ParseResult("", Cmd(Head(rest), Tail(rest), w),
                                  i # 0 /\ ~w.some)

-----------------------------------------------------------------------------
(* Events the program makes observable, in the order it makes them *)

Event(e) == [ev |-> e, secs |-> <<>>, cmd |-> "", args |-> <<>>]
SleepEvent(w) == [ev |-> "sleep", secs |-> w, cmd |-> "", args |-> <<>>]
SpawnEvent(c) == [ev |-> "spawn", secs |-> <<>>, cmd |-> c.cmd, args |-> c.args]

Count(e) == Cardinality({i \in 1..Len(log) : log[i].ev = e})
IsFailure(o) == o \in {"SpawnFailure", "ExecutionFailure"}

-----------------------------------------------------------------------------
(* Inputs *)

Tokens == {"", "echo", "-m"}

V5 == <<"5">>
V007 == <<"0","0","7">>
VPlus5 == <<"+","5">>
VMinus5 == <<"-","5">>
VEmpty == <<>>
VText == <<"x">>
VMax == <<"1","8","4","4","6","7","4","4","0","7","3","7","0","9","5","5","1","6","1","5">>
VOver == <<"1","8","4","4","6","7","4","4","0","7","3","7","0","9","5","5","1","6","1","6">>
WaitValues == {V5, V007, VPlus5, VMinus5, VEmpty, VText, VMax, VOver}

Pair(k, v) == [key |-> k, val |-> v]
Pairs == {Pair("RUN_ONE_WAIT", v) : v \in WaitValues}
            \cup {Pair("PATH", V5), Pair("run_one_wait", V5)}

\* an OsString: valid Unicode or not
Os(s) == [valid |-> TRUE, str |-> s]
BadOsToken == [valid |-> FALSE, str |-> ""]
BadOsValue == [valid |-> FALSE, str |-> <<>>]
OsTokens == {Os(""), Os("echo"), Os("-m"), BadOsToken}
OsPairs == {Pair(Os("RUN_ONE_WAIT"), Os(V5)), Pair(Os("RUN_ONE_WAIT"), Os(VText)),
            Pair(Os("PATH"), Os(V5)), Pair(Os("RUN_ONE_WAIT"), BadOsValue),
            Pair(BadOsToken, Os(V5))}

\* exit statuses a child can end with; 0 is ExitStatus::success()
ChildStatuses == {0, 1, 2}

-----------------------------------------------------------------------------
(* The pure function parse_args, applied to every input *)

InitParse ==
    /\ os_args = <<>>
    /\ os_vars = <<>>
    /\ args \in SeqsUpTo(Tokens, MaxArgs)
    /\ vars \in SeqsUpTo(Pairs, MaxVars)
    /\ pc = "call"
    /\ res = NotParsed
    /\ r = "none"
    /\ child = -1
    /\ spawns = 0
    /\ outcomes = <<>>
    /\ log = <<>>
    /\ status = -1

CallParseArgs ==
    /\ pc = "call"
    /\ res' = parse_args(args, vars)
    /\ log' = IF res'.warned THEN Append(log, Event("warn")) ELSE log
    /\ pc' = "returned"
    /\ UNCHANGED <<os_args, os_vars, args, vars, r, child, spawns, outcomes, status>>

NextParse == CallParseArgs

ParseSpec == InitParse /\ [][NextParse]_vars_all

-----------------------------------------------------------------------------
(* main *)

Init ==
    /\ os_args \in SeqsUpTo(OsTokens, MaxOsArgs)
    /\ os_vars \in SeqsUpTo(OsPairs, MaxOsVars)
    /\ args = <<>>
    /\ vars = <<>>
    /\ pc = "main"
    /\ res = NotParsed
    /\ r = "none"
    /\ child = -1
    /\ spawns = 0
    /\ outcomes = <<>>
    /\ log = <<>>
    /\ status = -1

\* a panic unwinds out of main: message on stderr, exit status 101
Panic(e) ==
    /\ log' = Append(log, Event(e))
    /\ pc' = "panicked"
    /\ status' = 101

\* std::env::args().collect(): Args::next panics on an argument that is not Unicode
CollectArgs ==
    /\ pc = "main"
    /\ IF \E i \in 1..Len(os_args) : ~os_args[i].valid
       THEN /\ Panic("panic_args")
            /\ UNCHANGED args
       ELSE /\ args' = [i \in 1..Len(os_args) |-> os_args[i].str]
            /\ pc' = "parse"
            /\ UNCHANGED <<log, status>>
    /\ UNCHANGED <<os_args, os_vars, vars, res, r, child, spawns, outcomes>>

\* std::env::vars() yields pairs lazily and panics at a pair that is not Unicode:
\* the pairs it can yield before that
Yielded(vs) ==
    LET bad == {i \in 1..Len(vs) : ~vs[i].key.valid \/ ~vs[i].val.valid}
        n == IF bad = {} THEN Len(vs) ELSE (CHOOSE i \in bad : \A j \in bad : i <= j) - 1
    IN  [i \in 1..n |-> Pair(vs[i].key.str, vs[i].val.str)]

\* parse_args(args, std::env::vars())?
ParseArgs ==
    /\ pc = "parse"
    /\ LET ys == Yielded(os_vars)
       IN  IF Len(args) >= 2 /\ FindWait(ys) = 0 /\ Len(ys) < Len(os_vars)
           THEN /\ Panic("panic_vars")
                /\ vars' = ys
                /\ UNCHANGED res
           ELSE /\ vars' = ys
                /\ res' = parse_args(args, ys)
                /\ IF res'.err # ""
                   THEN /\ log' = Append(log, Event("report"))
                        /\ pc' = "exited"
                        /\ status' = 1
                   ELSE /\ log' = IF res'.warned THEN Append(log, Event("warn")) ELSE log
                        /\ pc' = "spawn"
                        /\ UNCHANGED status
    /\ UNCHANGED <<os_args, os_vars, args, r, child, spawns, outcomes>>

\* run, line 46: Command::new(&cmd.cmd).args(&cmd.args).spawn()
Spawn ==
    /\ pc = "spawn"
    /\ spawns < MaxRuns
    /\ spawns' = spawns + 1
    /\ log' = Append(log, SpawnEvent(res.cmd))
    /\ \/ /\ res.cmd.cmd # ""          \* an empty program name cannot be executed
          /\ pc' = "wait"
          /\ r' = "none"
          /\ UNCHANGED outcomes
       \/ /\ r' = "SpawnFailure"
          /\ outcomes' = Append(outcomes, "SpawnFailure")
          /\ pc' = "delay"
    /\ UNCHANGED <<os_args, os_vars, args, vars, res, child, status>>

\* a failed wait is taken for a success
WaitIgnoresError ==
    /\ pc = "wait"
    /\ \/ /\ log' = Append(log, Event("wait_failed"))
          /\ r' = "Ok"
          /\ outcomes' = Append(outcomes, "Ok")
          /\ pc' = "delay"
          /\ UNCHANGED <<child, status>>
       \/ \E st \in ChildStatuses :
            /\ child' = st
            /\ r' = IF st = 0 THEN "Ok" ELSE "ExecutionFailure"
            /\ outcomes' = Append(outcomes, r')
            /\ log' = Append(log, Event("wait"))
            /\ pc' = "delay"
            /\ UNCHANGED status
    /\ UNCHANGED <<os_args, os_vars, args, vars, res, spawns>>

\* run, lines 50-55: child.wait().unwrap(), then status.success()
Wait ==
    /\ pc = "wait"
    /\ \/ /\ Panic("wait_failed")
          /\ UNCHANGED <<r, child, outcomes>>
       \/ \E st \in ChildStatuses :
            /\ child' = st
            /\ r' = IF st = 0 THEN "Ok" ELSE "ExecutionFailure"
            /\ outcomes' = Append(outcomes, r')
            /\ log' = Append(log, Event("wait"))
            /\ pc' = "delay"
            /\ UNCHANGED status
    /\ UNCHANGED <<os_args, os_vars, args, vars, res, spawns>>

\* the sleep is skipped when the command failed
DelayOnlyOnSuccess ==
    /\ pc = "delay"
    /\ log' = IF res.cmd.wait.some /\ r = "Ok"
              THEN Append(log, SleepEvent(res.cmd.wait.val)) ELSE log
    /\ pc' = "match"
    /\ UNCHANGED <<os_args, os_vars, args, vars, res, r, child, spawns, outcomes, status>>

\* run, lines 60-64: the sleep, then return r
Delay ==
    /\ pc = "delay"
    /\ log' = IF res.cmd.wait.some THEN Append(log, SleepEvent(res.cmd.wait.val)) ELSE log
    /\ pc' = "match"
    /\ UNCHANGED <<os_args, os_vars, args, vars, res, r, child, spawns, outcomes, status>>

\* the bell rings after every iteration
LoopOkRings ==
    /\ pc = "match"
    /\ r = "Ok"
    /\ log' = Append(log, Event("bell"))
    /\ pc' = "spawn"
    /\ UNCHANGED <<os_args, os_vars, args, vars, res, r, child, spawns, outcomes, status>>

\* the loop is left after a success
LoopOkBreaks ==
    /\ pc = "match"
    /\ r = "Ok"
    /\ pc' = "stopped"
    /\ UNCHANGED <<os_args, os_vars, args, vars, res, r, child, spawns, outcomes, log, status>>

\* main, line 11: Ok(_) => {}
LoopOk ==
    /\ pc = "match"
    /\ r = "Ok"
    /\ pc' = "spawn"
    /\ UNCHANGED <<os_args, os_vars, args, vars, res, r, child, spawns, outcomes, log, status>>

\* the break is missing
LoopErrNoBreak ==
    /\ pc = "match"
    /\ r # "Ok"
    /\ log' = Append(log, Event("diag"))
    /\ pc' = "spawn"
    /\ UNCHANGED <<os_args, os_vars, args, vars, res, r, child, spawns, outcomes, status>>

\* main, lines 12-15: Err(e) => { eprintln!("Error: {e}"); break; }
LoopErr ==
    /\ pc = "match"
    /\ r # "Ok"
    /\ log' = Append(log, Event("diag"))
    /\ pc' = "stopped"
    /\ UNCHANGED <<os_args, os_vars, args, vars, res, r, child, spawns, outcomes, status>>

\* main, line 19: print!("\x07")
Bell ==
    /\ pc = "stopped"
    /\ log' = Append(log, Event("bell"))
    /\ pc' = "return"
    /\ UNCHANGED <<os_args, os_vars, args, vars, res, r, child, spawns, outcomes, status>>

\* the child's failure becomes the wrapper's exit status
ExitWithChildStatus ==
    /\ pc = "return"
    /\ status' = IF r = "ExecutionFailure" THEN child ELSE 1
    /\ pc' = "exited"
    /\ UNCHANGED <<os_args, os_vars, args, vars, res, r, child, spawns, outcomes, log>>

\* main, line 21: Ok(())
Exit ==
    /\ pc = "return"
    /\ status' = 0
    /\ pc' = "exited"
    /\ UNCHANGED <<os_args, os_vars, args, vars, res, r, child, spawns, outcomes, log>>

Next ==
    \/ CollectArgs
    \/ ParseArgs
    \/ Spawn
    \/ Wait
    \/ Delay
    \/ LoopOk
    \/ LoopErr
    \/ Bell
    \/ Exit

Spec == Init /\ [][Next]_vars_all

-----------------------------------------------------------------------------
(* Properties of parse_args, checked under ParseSpec *)

Returned == pc = "returned"
IsWaitKey(p) == p.key = "RUN_ONE_WAIT"

\* A text denotes a u64: an optional "+", then one or more decimal digits,
\* of a value no greater than u64::MAX.  Stated on the text alone.
DigitsOf(v) == IF v # <<>> /\ v[1] = "+" THEN Tail(v) ELSE v
RECURSIVE StripZeros(_)
StripZeros(d) ==
    IF Len(d) > 1 /\ Head(d) = 0 THEN StripZeros(Tail(d)) ELSE d
ValueOf(v) == StripZeros([i \in 1..Len(DigitsOf(v)) |-> DigitVal(DigitsOf(v)[i])])
DenotesU64(v) ==
    /\ DigitsOf(v) # <<>>
    /\ \A i \in 1..Len(DigitsOf(v)) : IsDigit(DigitsOf(v)[i])
    /\ DigLE(ValueOf(v), U64Max)

C5_MissingTokens ==
    Returned =>
        /\ res.err = ErrNoProgramName <=> Len(args) = 0
        /\ res.err = ErrNoCommand <=> Len(args) = 1
        /\ res.err # "" => res.cmd = NoCmd

C5_Witness ==
    /\ Returned
    /\ Len(args) = 1
    /\ \E i \in 1..Len(vars) : IsWaitKey(vars[i]) /\ vars[i].val = VText
    /\ res.err = ErrNoCommand
    /\ res.cmd = NoCmd

\* C6: the delay is decided by the first pair whose key is RUN_ONE_WAIT and
\* by no other: it is that pair's value when the value denotes a u64, and
\* absent when it does not or when no pair has the key; a value that does
\* not parse emits a diagnostic and parse_args still succeeds.
C6_FirstWaitDecides ==
    (Returned /\ Len(args) >= 2) =>
        /\ res.err = ""
        /\ \A i \in 1..Len(vars) :
             (IsWaitKey(vars[i]) /\ \A j \in 1..(i - 1) : ~IsWaitKey(vars[j])) =>
                 IF DenotesU64(vars[i].val)
                 THEN res.cmd.wait = Some(ValueOf(vars[i].val)) /\ log = <<>>
                 ELSE res.cmd.wait = None /\ Len(log) = 1 /\ log[1].ev = "warn"
        /\ (\A i \in 1..Len(vars) : ~IsWaitKey(vars[i])) =>
             res.cmd.wait = None /\ log = <<>>

C6_Witness ==
    /\ Returned
    /\ Len(vars) = 2
    /\ vars[1] = Pair("RUN_ONE_WAIT", VMinus5)
    /\ vars[2] = Pair("RUN_ONE_WAIT", V5)
    /\ res.err = ""
    /\ res.cmd.wait = None
    /\ Len(log) = 1

\* C7 as stated: whenever parse_args succeeds, program is a non-empty string.
C7_ProgramNonEmpty ==
    (Returned /\ res.err = "") => res.cmd.cmd # ""

\* C7, amended: whenever parse_args succeeds there were at least two tokens
\* and program is the second token as given, so it is empty exactly when
\* that token is the empty string.
C7_ProgramIsSecondToken ==
    (Returned /\ res.err = "") =>
        /\ Len(args) >= 2
        /\ res.cmd.cmd = "" <=> args[2] = ""
        /\ res.cmd.cmd = args[2]

C7_Witness ==
    /\ Returned
    /\ res.err = ""
    /\ Len(args) >= 2
    /\ args[1] # ""
    /\ args[2] = ""
    /\ res.cmd.cmd = ""

-----------------------------------------------------------------------------
(* Properties of main and run, checked under Spec *)

Running == pc \in {"spawn", "wait", "delay", "match"}
LoopLeft == pc \in {"stopped", "return"} \/ (pc = "exited" /\ res.err = "")
Last(q) == q[Len(q)]

\* C1: the first run() that fails is the last one: if invocation n fails,
\* exactly n spawns were attempted, no further invocation follows, and
\* exactly one diagnostic is printed.
C1_FirstFailureIsLast ==
    /\ \A n \in 1..Len(outcomes) : IsFailure(outcomes[n]) =>
          /\ n = Len(outcomes)
          /\ spawns = n
          /\ Count("spawn") = n
          /\ Count("diag") = IF LoopLeft THEN 1 ELSE 0
    /\ Count("diag") > 0 => outcomes # <<>> /\ IsFailure(Last(outcomes))

C1_Witness ==
    /\ pc = "exited"
    /\ outcomes = <<"Ok", "Ok", "ExecutionFailure">>
    /\ spawns = 3
    /\ Count("diag") = 1

\* C2: no bell is written while the loop is running; once the loop has
\* stopped exactly one bell is written, after the failure diagnostic, and it
\* is the last output before the process exits.
C2_OneBellAtTheEnd ==
    /\ Running => Count("bell") = 0
    /\ Count("bell") <= 1
    /\ \A i \in 1..Len(log) : log[i].ev = "bell" =>
          /\ i = Len(log)
          /\ i > 1
          /\ log[i - 1].ev = "diag"
    /\ (pc = "exited" /\ res.err = "") => Count("bell") = 1 /\ Last(log).ev = "bell"

C2_Witness ==
    /\ pc = "exited"
    /\ status = 0
    /\ Count("bell") = 1
    /\ Count("sleep") = 2
    /\ Last(log).ev = "bell"

\* C3 as stated, on the runs in which parse_args has returned: a stopped
\* loop exits with success, and main exits with an error status exactly
\* when parse_args fails, no child spawned in that case.
C3_StatusOnlyByParsing ==
    res.called =>
        /\ (pc = "exited" /\ res.err = "") => status = 0
        /\ status \notin {-1, 0} <=> res.err # ""
        /\ res.err # "" => spawns = 0

\* C3, amended: a loop stopped by SpawnFailure or ExecutionFailure exits
\* with success whatever the child's status; a failure of parse_args exits
\* with status 1 and no child spawned; the only other error status is that
\* of a panic (an argument or environment pair that is not Unicode, or a
\* failed wait on the child).
C3_StatusByParsingOrPanic ==
    /\ (pc = "exited" /\ res.err = "") => status = 0 /\ IsFailure(r)
    /\ status = 0 => pc = "exited" /\ res.called /\ res.err = ""
    /\ status = 1 <=> res.err # ""
    /\ res.err # "" => spawns = 0 /\ Count("spawn") = 0 /\ pc = "exited"
    /\ status = 101 <=> pc = "panicked"
    /\ pc = "panicked" =>
          Last(log).ev \in {"panic_args", "panic_vars", "wait_failed"}
    /\ status \in {-1, 0, 1, 101}

C3_Witness ==
    /\ pc = "exited"
    /\ status = 0
    /\ r = "ExecutionFailure"
    /\ child = 2

\* C8: with a delay, every run() sleeps exactly once, for that delay, right
\* after its outcome is determined and before it returns, whatever the
\* outcome, so the sleep of the failing iteration precedes the diagnostic
\* and the bell; without a delay nothing ever sleeps.
C8_SleepAfterEveryOutcome ==
    LET w == res.cmd.wait
        returned == Len(outcomes) - (IF pc = "delay" THEN 1 ELSE 0)
    IN  /\ ~w.some => Count("sleep") = 0
        /\ w.some =>
              /\ Count("sleep") = returned
              /\ \A i \in 1..Len(log) : log[i].ev = "sleep" =>
                    /\ log[i].secs = w.val
                    /\ i > 1
                    /\ log[i - 1].ev \in {"spawn", "wait"}
              /\ \A i \in 1..Len(log) : log[i].ev = "diag" =>
                    i > 1 /\ log[i - 1].ev = "sleep"
              /\ \A i \in 1..Len(log) : log[i].ev = "bell" =>
                    \E j \in 1..(i - 1) : log[j].ev = "sleep"

C8_Witness ==
    /\ pc = "exited"
    /\ res.cmd.wait = Some(<<5>>)
    /\ outcomes = <<"Ok", "SpawnFailure">>
    /\ Count("sleep") = 2
    /\ Count("bell") = 1

\* C9: after a success the loop never stops: the next step is another
\* spawn, with nothing printed in between, and every spawn uses the same
\* program and arguments; the loop is left only after a failure.
C9_SuccessContinues ==
    [][ /\ (pc = "match" /\ r = "Ok") => (pc' = "spawn" /\ log' = log /\ res' = res)
        /\ (pc = "spawn" /\ outcomes # <<>> /\ Last(outcomes) = "Ok") =>
              /\ Last(log').ev = "spawn"
              /\ \A i \in 1..Len(log') : log'[i].ev = "spawn" =>
                    log'[i].cmd = args[2] /\ log'[i].args = SubSeq(args, 3, Len(args))
              /\ Count("diag") = 0 /\ Count("bell") = 0
        /\ (pc # "stopped" /\ pc' = "stopped") => IsFailure(r)
      ]_vars_all

C9_Witness ==
    /\ pc = "wait"
    /\ outcomes = <<"Ok", "Ok">>
    /\ Count("spawn") = 3
    /\ Len(args) = 3
    /\ Last(log).args = <<args[3]>>

\* C10: a failed wait on a spawned child is fatal: nothing follows it, in
\* particular no further spawn, however many iterations succeeded before.
C10_WaitFailureIsFatal ==
    \A i \in 1..Len(log) : log[i].ev = "wait_failed" =>
        /\ i = Len(log)
        /\ pc = "panicked"
        /\ status = 101
        /\ \A j \in (i + 1)..Len(log) : log[j].ev # "spawn"

C10_Witness ==
    /\ pc = "panicked"
    /\ Last(log).ev = "wait_failed"
    /\ outcomes = <<"Ok", "Ok">>
    /\ spawns = 3

====
